---- MODULE Spec2Model ----
(***************************************************************************)
(* Model of ssnd_loader.py: the archive loaders load_instances_zip and     *)
(* load_w_scenarios_zip, the section splitter _section_blocks, the row     *)
(* parsers and the assembly of an SSNDInstance.                            *)
(*                                                                         *)
(* Strings are sequences of tokens.  The white-space characters the code   *)
(* tests for (space, tab, carriage return, line feed) and the semicolon    *)
(* are tokens of their own; every other token is a maximal run of other    *)
(* characters (a word, a number, a literal such as "((1,0),(2,1))").       *)
(* Numbers are decoded by table; a float is held in tenths, an int as      *)
(* itself, and float(int) multiplies by ten.                               *)
(***************************************************************************)
EXTENDS Integers, Sequences, FiniteSets, TLC

VARIABLES archive, kind, pc, idx, out, zfOpen, zfOpens, fhOpen, text,
          blocks, hdrAt, exc, result, opened, parsed

vars == <<archive, kind, pc, idx, out, zfOpen, zfOpens, fhOpen, text,
          blocks, hdrAt, exc, result, opened, parsed>>

----------------------------------------------------------------------------
(* Characters the code tests for. *)

SP == " "
TAB == "\t"
CR == "\r"
NL == "\n"
SEMI == ";"
SLASH == "/"

\* str.strip() with no argument strips these.
Whitespace == {SP, TAB, CR, NL}

----------------------------------------------------------------------------
(* Generic sequence helpers. *)

Range(s) == {s[i] : i \in DOMAIN s}

Drop(s, n) == SubSeq(s, n + 1, Len(s))

Take(s, n) == SubSeq(s, 1, n)

StartsWith(s, p) == Len(s) >= Len(p) /\ Take(s, Len(p)) = p

RECURSIVE Concat(_)
Concat(ss) == IF ss = <<>> THEN <<>> ELSE Head(ss) \o Concat(Tail(ss))

\* A dict update d[k] = v on a function.
Put(d, k, v) == [x \in (DOMAIN d) \cup {k} |-> IF x = k THEN v ELSE d[x]]

EmptyDict == [x \in {} |-> 0]

----------------------------------------------------------------------------
(* str methods. *)

RECURSIVE LStrip(_)
LStrip(s) ==
    IF s # <<>> /\ Head(s) \in Whitespace THEN LStrip(Tail(s)) ELSE s

RECURSIVE RStrip(_)
RStrip(s) ==
    IF s # <<>> /\ s[Len(s)] \in Whitespace THEN RStrip(Take(s, Len(s) - 1)) ELSE s

Strip(s) == RStrip(LStrip(s))

Remove(s, c) == SelectSeq(s, LAMBDA t : t # c)

\* Index of the first occurrence of c in s, 0 when there is none.
RECURSIVE FindFrom(_, _, _)
FindFrom(s, c, i) ==
    IF i > Len(s) THEN 0 ELSE IF s[i] = c THEN i ELSE FindFrom(s, c, i + 1)

Find(s, c) == FindFrom(s, c, 1)

\* s.split(c): the fields between every occurrence of c.
RECURSIVE Split(_, _)
Split(s, c) ==
    LET p == Find(s, c)
    IN IF p = 0 THEN <<s>> ELSE <<Take(s, p - 1)>> \o Split(Drop(s, p), c)

\* text.splitlines(): a line ends at "\r\n", "\r" or "\n"; an empty last
\* line is not produced.
SplitLines(s) ==
    LET brk == {i \in DOMAIN s : s[i] = CR \/ (s[i] = NL /\ (i = 1 \/ s[i - 1] # CR))}
        n == Cardinality(brk)
        at(k) == CHOOSE i \in brk : Cardinality({j \in brk : j < i}) = k - 1
        after(i) == IF s[i] = CR /\ i < Len(s) /\ s[i + 1] = NL THEN i + 2 ELSE i + 1
        from(k) == IF k = 1 THEN 1 ELSE after(at(k - 1))
        ended == [k \in 1..n |-> SubSeq(s, from(k), at(k) - 1)]
    IN IF from(n + 1) <= Len(s) THEN Append(ended, SubSeq(s, from(n + 1), Len(s))) ELSE ended

_clean(s) == Remove(Strip(s), CR)

----------------------------------------------------------------------------
(* _section_blocks: the section splitter. *)

\* The tables the splitter knows, in the order it scans for them.
TableNames == <<"SERVICES", "REQS", "HOLDING", "PSI", "EIN", "EOUT">>

\* A row of words joined by tabs.
RECURSIVE TabJoin(_)
TabJoin(ws) ==
    IF Len(ws) <= 1 THEN ws ELSE <<Head(ws), TAB>> \o TabJoin(Tail(ws))

HeaderRow(sec) ==
    CASE sec = "SERVICES" ->
           TabJoin(<<"serviceID", "Services", "origin", "alpha", "destination", "beta", "TranCost", "fs">>)
      [] sec = "REQS" ->
           TabJoin(<<"reqs", "origins", "destinations", "alphas", "betas", "contract_based", "rhos", "ws">>)
      [] sec = "HOLDING" -> TabJoin(<<"HoldingArcs", "HoldingCost">>)
      [] sec = "PSI" -> TabJoin(<<"reqs", "times", "alphaPsi", "betaPsi">>)
      [] sec = "EIN" -> TabJoin(<<"TimeNodes", "ExecArcsIn">>)
      [] sec = "EOUT" -> TabJoin(<<"TimeNodes", "ExecArcsOut">>)

ArcsPrefix == <<"Arcs", SP>>

\* take_table: the lines from start up to a blank line or the end, and the
\* index of the line that stopped it.
RECURSIVE take_table(_, _)
take_table(lines, start) ==
    IF start <= Len(lines) /\ lines[start] # <<>>
    THEN LET r == take_table(lines, start + 1)
         IN [tab |-> <<lines[start]>> \o r.tab, i |-> r.i]
    ELSE [tab |-> <<>>, i |-> start]

\* header[key] = val on an insertion-ordered dict held as a sequence of pairs.
RECURSIVE DictSet(_, _, _)
DictSet(d, key, val) ==
    IF d = <<>> THEN <<<<key, val>>>>
    ELSE IF Head(d)[1] = key THEN <<<<key, val>>>> \o Tail(d)
    ELSE <<Head(d)>> \o DictSet(Tail(d), key, val)

\* The HEADER loop: key/value lines up to the first line starting "Arcs ".
RECURSIVE HeaderScan(_, _, _)
HeaderScan(lines, i, header) ==
    IF i > Len(lines) THEN [i |-> i, header |-> header]
    ELSE LET ln == lines[i]
         IN IF StartsWith(ln, ArcsPrefix) THEN [i |-> i, header |-> header]
            ELSE IF ln = <<>> THEN HeaderScan(lines, i + 1, header)
            ELSE IF SP \in Range(ln)
                 THEN LET p == Find(ln, SP)
                      IN HeaderScan(lines, i + 1, DictSet(header, Take(ln, p - 1), Drop(ln, p)))
            ELSE HeaderScan(lines, i + 1, header)

\* The "skip blank lines" loop of the table scan.
RECURSIVE SkipBlank(_, _)
SkipBlank(lines, i) ==
    IF i <= Len(lines) /\ lines[i] = <<>> THEN SkipBlank(lines, i + 1) ELSE i

\* The iteration that steps over the line it did not recognize.
TableStepConsume(lines, st, sec) ==
    LET i == SkipBlank(lines, st.i)
    IN IF i <= Len(lines) /\ lines[i] = HeaderRow(sec)
       THEN LET r == take_table(lines, i + 1)
            IN [i |-> r.i, blocks |-> Put(st.blocks, sec, r.tab), hdrAt |-> Put(st.hdrAt, sec, i)]
       ELSE [i |-> i + 1, blocks |-> st.blocks, hdrAt |-> st.hdrAt]

\* The iteration that looks for the header row anywhere from the cursor on.
TableStepSearch(lines, st, sec) ==
    LET at == {j \in st.i..Len(lines) : lines[j] = HeaderRow(sec)}
    IN IF at # {}
       THEN LET i == CHOOSE j \in at : \A k \in at : j <= k
                r == take_table(lines, i + 1)
            IN [i |-> r.i, blocks |-> Put(st.blocks, sec, r.tab), hdrAt |-> Put(st.hdrAt, sec, i)]
       ELSE [i |-> st.i, blocks |-> st.blocks, hdrAt |-> st.hdrAt]

\* One iteration of the loop over the known tables: st is the cursor i, the
\* blocks recorded so far and the line index of each recorded header row.
TableStep(lines, st, sec) ==
    LET i == SkipBlank(lines, st.i)
    IN IF i <= Len(lines) /\ lines[i] = HeaderRow(sec)
       THEN LET r == take_table(lines, i + 1)
            IN [i |-> r.i, blocks |-> Put(st.blocks, sec, r.tab), hdrAt |-> Put(st.hdrAt, sec, i)]
       ELSE [i |-> i, blocks |-> st.blocks, hdrAt |-> st.hdrAt]

RECURSIVE ScanTables(_, _, _)
ScanTables(lines, st, t) ==
    IF t > Len(TableNames) THEN st
    ELSE ScanTables(lines, TableStep(lines, st, TableNames[t]), t + 1)

CleanLines(txt) ==
    LET ls == SplitLines(txt) IN [k \in DOMAIN ls |-> _clean(ls[k])]

\* _section_blocks(text), with the header-row positions as a by-product.
_section_blocks(txt) ==
    LET lines == CleanLines(txt)
        h == HeaderScan(lines, 1, <<>>)
        b0 == Put(EmptyDict, "HEADER",
                  [k \in DOMAIN h.header |-> h.header[k][1] \o <<SP>> \o h.header[k][2]])
        hasArcs == h.i <= Len(lines) /\ StartsWith(lines[h.i], ArcsPrefix)
        b1 == IF hasArcs THEN Put(b0, "ARCS", <<Drop(lines[h.i], Len(ArcsPrefix))>>) ELSE b0
        i1 == IF hasArcs THEN h.i + 1 ELSE h.i
    IN ScanTables(lines, [i |-> i1, blocks |-> b1, hdrAt |-> EmptyDict], 1)

----------------------------------------------------------------------------
(* Decoding of tokens: int(), float(), ast.literal_eval via _lit. *)

IntToks == {"0", "1", "2", "3", "5", "10", "20", "50", "01"}

IntVal(tok) ==
    CASE tok = "0" -> 0 [] tok = "1" -> 1 [] tok = "2" -> 2 [] tok = "3" -> 3
      [] tok = "5" -> 5 [] tok = "10" -> 10 [] tok = "20" -> 20 [] tok = "50" -> 50
      [] tok = "01" -> 1

\* str(n) of an int, as the f-string of the default name writes it.
IntStr(n) ==
    CASE n = 0 -> "0" [] n = 1 -> "1" [] n = 2 -> "2" [] n = 3 -> "3"
      [] n = 5 -> "5" [] n = 10 -> "10" [] n = 20 -> "20" [] n = 50 -> "50"

FloatToks == {"0.5", "2.0", "5.0", "3.5", "1."}

\* A float is held in tenths.
FloatTenths(tok) ==
    CASE tok = "0.5" -> 5 [] tok = "2.0" -> 20 [] tok = "5.0" -> 50 [] tok = "3.5" -> 35
      [] tok = "1." -> 10

\* float(n) of an int n.
PyFloat(n) == n * 10

\* The exceptions the code can raise: the built-in type and the input text
\* its message quotes.
NoExc == [type |-> "none", msg |-> <<>>]
IndexErr == [type |-> "IndexError", msg |-> <<>>]
ValueErr(f) == [type |-> "ValueError", msg |-> f]
UnpackErr == [type |-> "ValueError", msg |-> <<>>]
KeyErr(k) == [type |-> "KeyError", msg |-> <<k>>]
TypeErr == [type |-> "TypeError", msg |-> <<>>]

\* int(s) of a string: surrounding white space is ignored.
IntOk(f) == Len(Strip(f)) = 1 /\ Strip(f)[1] \in IntToks
IntOf(f) == IntVal(Strip(f)[1])

\* float(s) of a string.
FloatOk(f) == Len(Strip(f)) = 1 /\ Strip(f)[1] \in IntToks \cup FloatToks
FloatOf(f) ==
    LET t == Strip(f)[1] IN IF t \in IntToks THEN PyFloat(IntVal(t)) ELSE FloatTenths(t)

\* The literals of the vocabulary other than numbers.
TupleToks == {"(1,2),(3,4)", "(1,10)", "(2,1)", "(1,0)", "((1,0),(2,1))", "((2,0),(3,1))", "((1,0),(1,1))"}
ListToks == {"[0,1]", "[(1,2),(2,3)]", "[((1,0),(2,1))]", "[]"}
LitToks == IntToks \cup FloatToks \cup TupleToks \cup ListToks

LitVal(tok) ==
    CASE tok \in IntToks -> IntVal(tok)
      [] tok \in FloatToks -> FloatTenths(tok)
      [] tok = "(1,2),(3,4)" -> <<<<1, 2>>, <<3, 4>>>>
      [] tok = "(1,10)" -> <<1, 10>>
      [] tok = "(2,1)" -> <<2, 1>>
      [] tok = "(1,0)" -> <<1, 0>>
      [] tok = "((1,0),(2,1))" -> <<<<1, 0>>, <<2, 1>>>>
      [] tok = "((2,0),(3,1))" -> <<<<2, 0>>, <<3, 1>>>>
      [] tok = "((1,0),(1,1))" -> <<<<1, 0>>, <<1, 1>>>>
      [] tok = "[0,1]" -> <<0, 1>>
      [] tok = "[(1,2),(2,3)]" -> <<<<1, 2>>, <<2, 3>>>>
      [] tok = "[((1,0),(2,1))]" -> <<<<<<1, 0>>, <<2, 1>>>>>>
      [] tok = "[]" -> <<>>

\* Literals whose elements are ints (th[0], th[1] can go through int()).
IntElemToks == {"(1,10)", "(2,1)", "(1,0)", "[0,1]"}

\* _lit(x): literal_eval accepts the literal with white space around it.
_litOk(f) == Len(Strip(f)) = 1 /\ Strip(f)[1] \in LitToks
_litTok(f) == Strip(f)[1]
Iterable(tok) == tok \in TupleToks \cup ListToks
Hashable(tok) == tok \notin ListToks

\* s.lower() of a token.
Lower(tok) ==
    CASE tok \in {"true", "True", "TRUE"} -> "true"
      [] tok \in {"false", "False"} -> "false"
      [] OTHER -> tok

----------------------------------------------------------------------------
(* The row parsers.  Each returns the exception it raises (NoExc when it    *)
(* returns) and the collections it built.                                  *)

\* The first exception of a sequence of evaluations, in evaluation order.
RECURSIVE FirstExc(_)
FirstExc(es) ==
    IF es = <<>> THEN NoExc ELSE IF Head(es) # NoExc THEN Head(es) ELSE FirstExc(Tail(es))

\* int(parts[j]), float(parts[j]), _lit(parts[j]) with j counted from 1.
IntField(parts, j) ==
    IF j > Len(parts) THEN IndexErr ELSE IF ~IntOk(parts[j]) THEN ValueErr(parts[j]) ELSE NoExc
FloatField(parts, j) ==
    IF j > Len(parts) THEN IndexErr ELSE IF ~FloatOk(parts[j]) THEN ValueErr(parts[j]) ELSE NoExc
LitField(parts, j) ==
    IF j > Len(parts) THEN IndexErr ELSE IF ~_litOk(parts[j]) THEN ValueErr(parts[j]) ELSE NoExc
\* Use of a decoded literal as a dict key.
KeyUse(parts, j) ==
    IF j <= Len(parts) /\ _litOk(parts[j]) /\ ~Hashable(_litTok(parts[j])) THEN TypeErr ELSE NoExc

\* One SERVICES row: sid, arc, c, f are read from parts[0], [1], [6], [7].
ServicesRowExc(parts) ==
    FirstExc(<<IntField(parts, 1), LitField(parts, 2), FloatField(parts, 7),
               FloatField(parts, 8), KeyUse(parts, 2)>>)

RECURSIVE ServicesFrom(_, _, _)
ServicesFrom(lines, k, acc) ==
    IF k > Len(lines) THEN acc
    ELSE LET parts == Split(lines[k], TAB)
             e == ServicesRowExc(parts)
         IN IF e # NoExc THEN [acc EXCEPT !.exc = e]
            ELSE LET arc == LitVal(_litTok(parts[2]))
                 IN ServicesFrom(lines, k + 1,
                        [exc |-> NoExc,
                         services |-> Append(acc.services, arc),
                         cs |-> Put(acc.cs, arc, FloatOf(parts[7])),
                         fs |-> Put(acc.fs, arc, FloatOf(parts[8]))])

_parse_services(lines) ==
    ServicesFrom(lines, 1, [exc |-> NoExc, services |-> <<>>, cs |-> EmptyDict, fs |-> EmptyDict])

LowerStr(s) == [k \in DOMAIN s |-> Lower(s[k])]

ReqsRowExc(parts) ==
    FirstExc(<<IntField(parts, 1), IntField(parts, 2), IntField(parts, 3), IntField(parts, 4),
               IntField(parts, 5), (IF Len(parts) < 6 THEN IndexErr ELSE NoExc),
               FloatField(parts, 7), IntField(parts, 8)>>)

RECURSIVE ReqsFrom(_, _, _)
ReqsFrom(lines, n, acc) ==
    IF n > Len(lines) THEN acc
    ELSE LET parts == Split(lines[n], TAB)
             e == ReqsRowExc(parts)
         IN IF e # NoExc THEN [acc EXCEPT !.exc = e]
            ELSE LET k == IntOf(parts[1])
                 IN ReqsFrom(lines, n + 1,
                        [exc |-> NoExc,
                         reqs |-> Append(acc.reqs, k),
                         os |-> Put(acc.os, k, IntOf(parts[2])),
                         ds |-> Put(acc.ds, k, IntOf(parts[3])),
                         alphas |-> Put(acc.alphas, k, IntOf(parts[4])),
                         betas |-> Put(acc.betas, k, IntOf(parts[5])),
                         is_contract |-> Put(acc.is_contract, k, LowerStr(Strip(parts[6])) = <<"true">>),
                         rhos |-> Put(acc.rhos, k, FloatOf(parts[7])),
                         ws |-> Put(acc.ws, k, IntOf(parts[8]))])

_parse_reqs(lines) ==
    ReqsFrom(lines, 1, [exc |-> NoExc, reqs |-> <<>>, os |-> EmptyDict, ds |-> EmptyDict,
                        alphas |-> EmptyDict, betas |-> EmptyDict, is_contract |-> EmptyDict,
                        rhos |-> EmptyDict, ws |-> EmptyDict])

\* a, b = ln.split("\t") and its four-name form: the count must be exact.
UnpackExc(parts, n) == IF Len(parts) # n THEN UnpackErr ELSE NoExc

HoldingRowExc(parts) ==
    FirstExc(<<UnpackExc(parts, 2), LitField(parts, 1), FloatField(parts, 2), KeyUse(parts, 1)>>)

RECURSIVE HoldingFrom(_, _, _)
HoldingFrom(lines, k, acc) ==
    IF k > Len(lines) THEN acc
    ELSE LET parts == Split(lines[k], TAB)
             e == HoldingRowExc(parts)
         IN IF e # NoExc THEN [acc EXCEPT !.exc = e]
            ELSE LET a == LitVal(_litTok(parts[1]))
                 IN HoldingFrom(lines, k + 1,
                        [exc |-> NoExc, arcsH |-> Append(acc.arcsH, a),
                         chs |-> Put(acc.chs, a, FloatOf(parts[2]))])

_parse_holding(lines) ==
    HoldingFrom(lines, 1, [exc |-> NoExc, arcsH |-> <<>>, chs |-> EmptyDict])

PsisRowExc(parts) ==
    FirstExc(<<UnpackExc(parts, 4), IntField(parts, 1), IntField(parts, 2),
               FloatField(parts, 3), FloatField(parts, 4)>>)

RECURSIVE PsisFrom(_, _, _)
PsisFrom(lines, n, acc) ==
    IF n > Len(lines) THEN acc
    ELSE LET parts == Split(lines[n], TAB)
             e == PsisRowExc(parts)
         IN IF e # NoExc THEN [acc EXCEPT !.exc = e]
            ELSE LET kt == <<IntOf(parts[1]), IntOf(parts[2])>>
                 IN PsisFrom(lines, n + 1,
                        [exc |-> NoExc,
                         alphaPsis |-> Put(acc.alphaPsis, kt, FloatOf(parts[3])),
                         betaPsis |-> Put(acc.betaPsis, kt, FloatOf(parts[4]))])

_parse_psis(lines) ==
    PsisFrom(lines, 1, [exc |-> NoExc, alphaPsis |-> EmptyDict, betaPsis |-> EmptyDict])

\* One EIN/EOUT row: the arc list is decoded only when its token is not empty.
ExecRowExc(parts) ==
    FirstExc(<<UnpackExc(parts, 2), LitField(parts, 1),
               (IF Len(parts) >= 2 /\ parts[2] # <<>> THEN LitField(parts, 2) ELSE NoExc),
               KeyUse(parts, 1)>>)

RECURSIVE ExecFrom(_, _, _)
ExecFrom(lines, k, acc) ==
    IF k > Len(lines) THEN acc
    ELSE LET parts == Split(lines[k], TAB)
             e == ExecRowExc(parts)
         IN IF e # NoExc THEN [acc EXCEPT !.exc = e]
            ELSE LET tn == LitVal(_litTok(parts[1]))
                     arcs == IF parts[2] # <<>> THEN LitVal(_litTok(parts[2])) ELSE <<>>
                 IN ExecFrom(lines, k + 1, [exc |-> NoExc, out |-> Put(acc.out, tn, arcs)])

_parse_exec_lists(lines) ==
    ExecFrom(lines, 1, [exc |-> NoExc, out |-> EmptyDict])

----------------------------------------------------------------------------
(* _parse_header and the assembly of an SSNDInstance.                      *)

\* A value of the header dict: an int, a float (in tenths), a decoded
\* literal (by its token), an element of a literal that is no number, or
\* the raw string.
HInt(n) == [tag |-> "int", n |-> n, tok |-> "", raw |-> <<>>]
HFloat(n) == [tag |-> "float", n |-> n, tok |-> "", raw |-> <<>>]
HLit(tok) == [tag |-> "lit", n |-> 0, tok |-> tok, raw |-> <<>>]
HObj == [tag |-> "obj", n |-> 0, tok |-> "", raw |-> <<>>]
HRaw(s) == [tag |-> "raw", n |-> 0, tok |-> "", raw |-> s]

IntKeys == {<<"NodeSize">>, <<"RequestSize">>, <<"ServiceNoPerArc">>, <<"ServiceCapacity">>, <<"ServiceCost">>}
LitKeys == {<<"TimePeriods">>, <<"RevenueRange">>, <<"ReqDemandRange">>}

\* th[j] of the decoded Trans/HoldingCost literal.
LitElem(tok, j) == IF tok \in IntElemToks THEN HInt(LitVal(tok)[j]) ELSE HObj

HeaderLineExc(key, val) ==
    IF key \in IntKeys THEN (IF IntOk(val) THEN NoExc ELSE ValueErr(val))
    ELSE IF key = <<"FastServiceRatio">> THEN (IF FloatOk(val) THEN NoExc ELSE ValueErr(val))
    ELSE IF key \in LitKeys THEN (IF _litOk(val) THEN NoExc ELSE ValueErr(val))
    ELSE IF key = <<"Trans/HoldingCost">>
         THEN IF ~_litOk(val) THEN ValueErr(val)
              ELSE IF ~Iterable(_litTok(val)) THEN TypeErr
              ELSE IF Len(LitVal(_litTok(val))) < 2 THEN IndexErr
              ELSE NoExc
    ELSE NoExc

HeaderLinePut(o, key, val) ==
    IF key \in IntKeys THEN Put(o, key, HInt(IntOf(val)))
    ELSE IF key = <<"FastServiceRatio">> THEN Put(o, key, HFloat(FloatOf(val)))
    ELSE IF key \in LitKeys THEN Put(o, key, HLit(_litTok(val)))
    ELSE IF key = <<"Trans/HoldingCost">>
         THEN Put(Put(o, <<"TransCost">>, LitElem(_litTok(val), 1)),
                  <<"HoldingCost">>, LitElem(_litTok(val), 2))
    ELSE Put(o, key, HRaw(val))

RECURSIVE HeaderFrom(_, _, _)
HeaderFrom(lines, k, acc) ==
    IF k > Len(lines) THEN acc
    ELSE LET p == Find(lines[k], SP)
         IN IF p = 0 THEN [acc EXCEPT !.exc = UnpackErr]
            ELSE LET key == Take(lines[k], p - 1)
                     val == Strip(Drop(lines[k], p))
                     e == HeaderLineExc(key, val)
                 IN IF e # NoExc THEN [acc EXCEPT !.exc = e]
                    ELSE HeaderFrom(lines, k + 1, [exc |-> NoExc, out |-> HeaderLinePut(acc.out, key, val)])

_parse_header(header_lines) ==
    HeaderFrom(header_lines, 1, [exc |-> NoExc, out |-> EmptyDict])

\* int(v) and float(v) of a header value.
IntConvExc(v) ==
    CASE v.tag \in {"int", "float"} -> NoExc
      [] v.tag = "raw" -> IF IntOk(v.raw) THEN NoExc ELSE ValueErr(v.raw)
      [] OTHER -> TypeErr
IntConv(v) ==
    CASE v.tag = "int" -> v.n
      [] v.tag = "float" -> v.n \div 10
      [] v.tag = "raw" -> IntOf(v.raw)
FloatConvExc(v) ==
    CASE v.tag \in {"int", "float"} -> NoExc
      [] v.tag = "raw" -> IF FloatOk(v.raw) THEN NoExc ELSE ValueErr(v.raw)
      [] OTHER -> TypeErr
FloatConv(v) ==
    CASE v.tag = "int" -> PyFloat(v.n)
      [] v.tag = "float" -> v.n
      [] v.tag = "raw" -> FloatOf(v.raw)
\* list(v) and tuple(v) of a header value (a str is iterable too).
SeqConvExc(v) ==
    CASE v.tag = "lit" -> IF Iterable(v.tok) THEN NoExc ELSE TypeErr
      [] v.tag = "raw" -> NoExc
      [] OTHER -> TypeErr
SeqConv(v) == IF v.tag = "lit" THEN LitVal(v.tok) ELSE v.raw

\* header[key] followed by a conversion: KeyError when the key is absent.
IntAt(h, key) == IF <<key>> \notin DOMAIN h THEN KeyErr(key) ELSE IntConvExc(h[<<key>>])
FloatAt(h, key) == IF <<key>> \notin DOMAIN h THEN KeyErr(key) ELSE FloatConvExc(h[<<key>>])
SeqAt(h, key) == IF <<key>> \notin DOMAIN h THEN KeyErr(key) ELSE SeqConvExc(h[<<key>>])

\* The keyword arguments of SSNDInstance(...), in the order they are evaluated.
AssembleExc(h, arcsTok) ==
    FirstExc(<<IntAt(h, "NodeSize"), SeqAt(h, "TimePeriods"), IntAt(h, "RequestSize"),
               IntAt(h, "ServiceNoPerArc"), IntAt(h, "ServiceCapacity"),
               FloatAt(h, "FastServiceRatio"), SeqAt(h, "RevenueRange"),
               SeqAt(h, "ReqDemandRange"), IntAt(h, "ServiceCost"), IntAt(h, "TransCost"),
               IntAt(h, "HoldingCost"),
               (IF arcsTok # "" /\ ~Iterable(arcsTok) THEN TypeErr ELSE NoExc)>>)

\* The name given by the HEADER, or the one synthesized from the file name.
DefaultName(key) ==
    <<"ins_N", IntStr(key[1]), "_K", IntStr(key[2]), "_Freq", IntStr(key[3]), "_sCap", IntStr(key[4])>>

\* us taken from another count of the HEADER.
CapacityFromCount(services, h) ==
    [a \in Range(services) |-> FloatConv(h[<<"ServiceNoPerArc">>])]

\* us: every service arc mapped to float(header["ServiceCapacity"]).
UniformCapacity(services, h) ==
    [a \in Range(services) |-> FloatConv(h[<<"ServiceCapacity">>])]

\* blocks.get(sec, []).
Get(b, sec) == IF sec \in DOMAIN b THEN b[sec] ELSE <<>>

\* The body of the loop of load_instances_zip after _section_blocks: the
\* parsers in the order they run, then SSNDInstance(...).
LoadInstance(b, key) ==
    LET hd == _parse_header(Get(b, "HEADER"))
        arcsExc == IF "ARCS" \in DOMAIN b /\ ~_litOk(b["ARCS"][1]) THEN ValueErr(b["ARCS"][1]) ELSE NoExc
        arcsTok == IF "ARCS" \in DOMAIN b /\ _litOk(b["ARCS"][1]) THEN _litTok(b["ARCS"][1]) ELSE ""
        sv == _parse_services(Get(b, "SERVICES"))
        rq == _parse_reqs(Get(b, "REQS"))
        ho == IF "HOLDING" \in DOMAIN b THEN _parse_holding(b["HOLDING"])
              ELSE [exc |-> NoExc, arcsH |-> <<>>, chs |-> EmptyDict]
        ps == IF "PSI" \in DOMAIN b THEN _parse_psis(b["PSI"])
              ELSE [exc |-> NoExc, alphaPsis |-> EmptyDict, betaPsis |-> EmptyDict]
        ein == IF "EIN" \in DOMAIN b THEN _parse_exec_lists(b["EIN"]) ELSE [exc |-> NoExc, out |-> EmptyDict]
        eout == IF "EOUT" \in DOMAIN b THEN _parse_exec_lists(b["EOUT"]) ELSE [exc |-> NoExc, out |-> EmptyDict]
        e == FirstExc(<<hd.exc, arcsExc, sv.exc, rq.exc, ho.exc, ps.exc, ein.exc, eout.exc,
                        AssembleExc(hd.out, arcsTok)>>)
        h == hd.out
    IN IF e # NoExc THEN [exc |-> e, inst |-> <<>>]
       ELSE [exc |-> NoExc,
             inst |-> [name |-> IF <<"Name">> \in DOMAIN h THEN h[<<"Name">>].raw ELSE DefaultName(key),
                       NodeSize |-> IntConv(h[<<"NodeSize">>]),
                       TimePeriods |-> SeqConv(h[<<"TimePeriods">>]),
                       RequestSize |-> IntConv(h[<<"RequestSize">>]),
                       ServiceNoPerArc |-> IntConv(h[<<"ServiceNoPerArc">>]),
                       ServiceCapacity |-> IntConv(h[<<"ServiceCapacity">>]),
                       FastServiceRatio |-> FloatConv(h[<<"FastServiceRatio">>]),
                       RevenueRange |-> SeqConv(h[<<"RevenueRange">>]),
                       ReqDemandRange |-> SeqConv(h[<<"ReqDemandRange">>]),
                       ServiceCost |-> IntConv(h[<<"ServiceCost">>]),
                       TransCost |-> IntConv(h[<<"TransCost">>]),
                       HoldingCost |-> IntConv(h[<<"HoldingCost">>]),
                       physical_arcs |-> IF arcsTok = "" THEN <<>> ELSE LitVal(arcsTok),
                       services |-> sv.services, cs |-> sv.cs, fs |-> sv.fs,
                       us |-> UniformCapacity(sv.services, h),
                       reqs |-> rq.reqs, os |-> rq.os, ds |-> rq.ds,
                       alphas |-> rq.alphas, betas |-> rq.betas,
                       is_contract |-> rq.is_contract, rhos |-> rq.rhos, ws |-> rq.ws,
                       holding_arcs |-> ho.arcsH, chs |-> ho.chs,
                       alphaPsis |-> ps.alphaPsis, betaPsis |-> ps.betaPsis,
                       arcsEin |-> ein.out, arcsEout |-> eout.out]]

----------------------------------------------------------------------------
(* The scenario file parser inside load_w_scenarios_zip.                   *)

\* [l.strip() for l in text.splitlines() if l.strip()]
NonBlankLines(txt) ==
    LET ls == SplitLines(txt)
        st == [k \in DOMAIN ls |-> Strip(ls[k])]
    IN SelectSeq(st, LAMBDA l : l # <<>>)

\* [int(x) for x in draws_str.split(";") if x != ""]
DrawFields(f) == SelectSeq(Split(f, SEMI), LAMBDA x : x # <<>>)

RECURSIVE DrawsExc(_)
DrawsExc(fs) ==
    IF fs = <<>> THEN NoExc
    ELSE IF ~IntOk(Head(fs)) THEN ValueErr(Head(fs)) ELSE DrawsExc(Tail(fs))

ScenarioRowExc(parts) ==
    FirstExc(<<UnpackExc(parts, 3), IntField(parts, 1), IntField(parts, 2),
               (IF Len(parts) >= 3 THEN DrawsExc(DrawFields(parts[3])) ELSE NoExc)>>)

RECURSIVE ScenarioFrom(_, _, _)
ScenarioFrom(lines, n, acc) ==
    IF n > Len(lines) THEN acc
    ELSE LET parts == Split(lines[n], TAB)
             e == ScenarioRowExc(parts)
         IN IF e # NoExc THEN [acc EXCEPT !.exc = e]
            ELSE LET k == IntOf(parts[1])
                     d == DrawFields(parts[3])
                 IN ScenarioFrom(lines, n + 1,
                        [exc |-> NoExc,
                         w_mu |-> Put(acc.w_mu, k, IntOf(parts[2])),
                         rnd_ws |-> Put(acc.rnd_ws, k, [j \in DOMAIN d |-> IntOf(d[j])])])

\* The body of the loop of load_w_scenarios_zip after the entry is read.
\* key is (N, K, F, C, nu).  The first line is dropped when it starts with
\* "reqs" (its first token then is the word reqs).
LoadScenario(txt, key) ==
    LET ls == NonBlankLines(txt)
        rows == IF ls # <<>> /\ Head(Head(ls)) = "reqs" THEN Tail(ls) ELSE ls
        r == ScenarioFrom(rows, 1, [exc |-> NoExc, w_mu |-> EmptyDict, rnd_ws |-> EmptyDict])
    IN IF r.exc # NoExc THEN [exc |-> r.exc, inst |-> <<>>]
       ELSE [exc |-> NoExc,
             inst |-> [node_size |-> key[1], Kmax |-> key[2], freq |-> key[3], serv_cap |-> key[4],
                       nu |-> key[5], w_mu |-> r.w_mu, rnd_ws |-> r.rnd_ws]]

----------------------------------------------------------------------------
(* The file name patterns.  A name is a sequence of tokens: "/", the        *)
(* literal pieces of the patterns, runs of digits (and dots, after _nu),    *)
(* and other words.                                                         *)

\* name.split("/")[-1]
BaseName(name) == LET ps == Split(name, SLASH) IN ps[Len(ps)]

\* The run [\d\.]+ after _nu.
NuToks == IntToks \cup FloatToks \cup {"."}

\* _INSTANCE_RE without its "$": the pattern found anywhere in the name.
InstanceAtUnanchored(s, p) ==
    /\ p + 8 <= Len(s)
    /\ s[p] = "ins_N" /\ s[p + 1] \in IntToks
    /\ s[p + 2] = "_K" /\ s[p + 3] \in IntToks
    /\ s[p + 4] = "_Freq" /\ s[p + 5] \in IntToks
    /\ s[p + 6] = "_sCap" /\ s[p + 7] \in IntToks
    /\ s[p + 8] = ".txt"

\* The tokens of _INSTANCE_RE from position p of s: its pieces and \d+ runs.
InstanceAt(s, p) ==
    /\ p + 8 <= Len(s)
    /\ s[p] = "ins_N" /\ s[p + 1] \in IntToks
    /\ s[p + 2] = "_K" /\ s[p + 3] \in IntToks
    /\ s[p + 4] = "_Freq" /\ s[p + 5] \in IntToks
    /\ s[p + 6] = "_sCap" /\ s[p + 7] \in IntToks
    /\ s[p + 8] = ".txt"
    \* "$": at the end, or before a line feed that ends the string
    /\ \/ p + 8 = Len(s)
       \/ p + 9 = Len(s) /\ s[p + 9] = NL

\* The tokens of _W_RE from position p of s.
WAt(s, p) ==
    /\ p + 10 <= Len(s)
    /\ s[p] = "wScenarios_N" /\ s[p + 1] \in IntToks
    /\ s[p + 2] = "_K" /\ s[p + 3] \in IntToks
    /\ s[p + 4] = "_Freq" /\ s[p + 5] \in IntToks
    /\ s[p + 6] = "_sCap" /\ s[p + 7] \in IntToks
    /\ s[p + 8] = "_nu" /\ s[p + 9] \in NuToks
    /\ s[p + 10] = ".txt"
    /\ \/ p + 10 = Len(s)
       \/ p + 11 = Len(s) /\ s[p + 11] = NL

\* re.search: the leftmost position where the pattern matches, 0 for None.
InstanceSearch(s) ==
    LET ps == {p \in DOMAIN s : InstanceAt(s, p)}
    IN IF ps = {} THEN 0 ELSE CHOOSE p \in ps : \A q \in ps : p <= q

WSearch(s) ==
    LET ps == {p \in DOMAIN s : WAt(s, p)}
    IN IF ps = {} THEN 0 ELSE CHOOSE p \in ps : \A q \in ps : p <= q

\* m = <pattern>.search(name.split("/")[-1]) as the position found.
Match(k, name) ==
    IF k = "instances" THEN InstanceSearch(BaseName(name)) ELSE WSearch(BaseName(name))

\* N, K, F, C = map(int, ...), and nu = float(m["nu"]) for a scenario file.
KeyExc(k, name) ==
    LET b == BaseName(name)
        p == Match(k, name)
    IN IF k = "scenarios" /\ ~FloatOk(<<b[p + 9]>>) THEN ValueErr(<<b[p + 9]>>) ELSE NoExc

KeyOf(k, name) ==
    LET b == BaseName(name)
        p == Match(k, name)
        nkfc == <<IntVal(b[p + 1]), IntVal(b[p + 3]), IntVal(b[p + 5]), IntVal(b[p + 7])>>
    IN IF k = "instances" THEN nkfc ELSE Append(nkfc, FloatOf(<<b[p + 9]>>))

----------------------------------------------------------------------------
(* load_instances_zip and load_w_scenarios_zip as one process.  archive is  *)
(* zf.namelist() with each entry's decoded text, kind the function called.  *)
(* opened and parsed record, in order, the entries whose handle was opened  *)
(* and whose parse ended.                                                   *)

NoResult == [returned |-> FALSE, map |-> EmptyDict]

\* The loop body with the parse in a try block that skips a failing entry.
AfterParseSkip(r, key, i, o) ==
    IF r.exc # NoExc
    THEN [pc |-> "loop", idx |-> i + 1, out |-> o, exc |-> NoExc]
    ELSE [pc |-> "loop", idx |-> i + 1, out |-> Put(o, key, r.inst), exc |-> NoExc]

\* What the loop body does with the outcome r of parsing entry i: nothing
\* catches an exception, so it leaves the loop; otherwise out[key] = inst.
AfterParse(r, key, i, o) ==
    IF r.exc # NoExc
    THEN [pc |-> "raising", idx |-> i, out |-> o, exc |-> r.exc]
    ELSE [pc |-> "loop", idx |-> i + 1, out |-> Put(o, key, r.inst), exc |-> NoExc]

\* zf = ZipFile(...) with zf.close() before the return, and no with block.
ZfClosedOnReturn(p) == p = "exit"

\* "with zipfile.ZipFile(...) as zf": the handle is closed when the block is
\* left, by the end of the loop ("exit") or by an exception ("raising").
ZfClosedBy(p) == p \in {"exit", "raising"}

\* with zipfile.ZipFile(zip_path, "r") as zf: for name in zf.namelist():
OpenArchive ==
    /\ pc = "start"
    /\ zfOpen' = TRUE
    /\ zfOpens' = zfOpens + 1
    /\ idx' = 1
    /\ pc' = "loop"
    /\ UNCHANGED <<archive, kind, out, fhOpen, text, blocks, hdrAt, exc, result, opened, parsed>>

\* if not m: continue
SkipEntry ==
    /\ pc = "loop" /\ idx <= Len(archive)
    /\ Match(kind, archive[idx].name) = 0
    /\ idx' = idx + 1
    /\ UNCHANGED <<archive, kind, pc, out, zfOpen, zfOpens, fhOpen, text, blocks, hdrAt, exc,
                   result, opened, parsed>>

\* nu = float(m["nu"]) raises before the entry is opened.
KeyRaise ==
    /\ pc = "loop" /\ idx <= Len(archive)
    /\ Match(kind, archive[idx].name) # 0
    /\ KeyExc(kind, archive[idx].name) # NoExc
    /\ exc' = KeyExc(kind, archive[idx].name)
    /\ pc' = "raising"
    /\ UNCHANGED <<archive, kind, idx, out, zfOpen, zfOpens, fhOpen, text, blocks, hdrAt,
                   result, opened, parsed>>

\* with zf.open(name) as fh:
OpenEntry ==
    /\ pc = "loop" /\ idx <= Len(archive)
    /\ Match(kind, archive[idx].name) # 0
    /\ KeyExc(kind, archive[idx].name) = NoExc
    /\ fhOpen' = TRUE
    /\ opened' = Append(opened, idx)
    /\ pc' = "read"
    /\ UNCHANGED <<archive, kind, idx, out, zfOpen, zfOpens, text, blocks, hdrAt, exc, result, parsed>>

\* text = fh.read().decode("utf-8", errors="replace"), and the inner with
\* block ends.
ReadEntry ==
    /\ pc = "read"
    /\ text' = archive[idx].data
    /\ fhOpen' = FALSE
    /\ pc' = IF kind = "instances" THEN "split" ELSE "parse"
    /\ UNCHANGED <<archive, kind, idx, out, zfOpen, zfOpens, blocks, hdrAt, exc, result, opened, parsed>>

\* blocks = _section_blocks(text)
SplitEntry ==
    /\ pc = "split"
    /\ LET r == _section_blocks(text)
       IN blocks' = r.blocks /\ hdrAt' = r.hdrAt
    /\ pc' = "parse"
    /\ UNCHANGED <<archive, kind, idx, out, zfOpen, zfOpens, fhOpen, text, exc, result, opened, parsed>>

\* The parsers, SSNDInstance(...) and out[(N, K, F, C)] = inst.
ParseInstance ==
    /\ pc = "parse" /\ kind = "instances"
    /\ LET key == KeyOf(kind, archive[idx].name)
           n == AfterParse(LoadInstance(blocks, key), key, idx, out)
       IN pc' = n.pc /\ idx' = n.idx /\ out' = n.out /\ exc' = n.exc
    /\ parsed' = Append(parsed, idx)
    /\ UNCHANGED <<archive, kind, zfOpen, zfOpens, fhOpen, text, blocks, hdrAt, result, opened>>

\* The scenario rows, WScenarioSet(...) and out[(N, K, F, C, nu)] = it.
ParseScenario ==
    /\ pc = "parse" /\ kind = "scenarios"
    /\ LET key == KeyOf(kind, archive[idx].name)
           n == AfterParse(LoadScenario(text, key), key, idx, out)
       IN pc' = n.pc /\ idx' = n.idx /\ out' = n.out /\ exc' = n.exc
    /\ parsed' = Append(parsed, idx)
    /\ UNCHANGED <<archive, kind, zfOpen, zfOpens, fhOpen, text, blocks, hdrAt, result, opened>>

\* The for loop runs out of names.
ExitLoop ==
    /\ pc = "loop" /\ idx > Len(archive)
    /\ pc' = "exit"
    /\ UNCHANGED <<archive, kind, idx, out, zfOpen, zfOpens, fhOpen, text, blocks, hdrAt, exc,
                   result, opened, parsed>>

\* The outer with block is left: "return out", or the exception goes on to
\* the caller and nothing is returned.
LeaveWith ==
    /\ pc \in {"exit", "raising"}
    /\ zfOpen' = (zfOpen /\ ~ZfClosedBy(pc))
    /\ pc' = IF pc = "exit" THEN "done" ELSE "raised"
    /\ result' = IF pc = "exit" THEN [returned |-> TRUE, map |-> out] ELSE NoResult
    /\ UNCHANGED <<archive, kind, idx, out, zfOpens, fhOpen, text, blocks, hdrAt, exc, opened, parsed>>

Next ==
    \/ OpenArchive
    \/ SkipEntry
    \/ KeyRaise
    \/ OpenEntry
    \/ ReadEntry
    \/ SplitEntry
    \/ ParseInstance
    \/ ParseScenario
    \/ ExitLoop
    \/ LeaveWith

\* The state at the call, for an archive a and the function k.
InitCall(a, k) ==
    /\ archive = a /\ kind = k
    /\ pc = "start" /\ idx = 1 /\ out = EmptyDict
    /\ zfOpen = FALSE /\ zfOpens = 0 /\ fhOpen = FALSE
    /\ text = <<>> /\ blocks = EmptyDict /\ hdrAt = EmptyDict
    /\ exc = NoExc /\ result = NoResult
    /\ opened = <<>> /\ parsed = <<>>

----------------------------------------------------------------------------
(* The inputs: file texts and archives.                                    *)

MaxEntries == 2
MaxRows == 2
MaxScanLines == 4
MaxGap == 2

SeqsUpTo(S, n) == UNION {[1..k -> S] : k \in 0..n}

\* A text file of the given lines.
FileText(lines) == Concat([k \in DOMAIN lines |-> lines[k] \o <<NL>>])

\* The HEADER of the instance-file format as documented.
DocHeader ==
    << <<"NodeSize", SP, "3">>, <<"TimePeriods", SP, "[0,1]">>, <<"RequestSize", SP, "1">>,
       <<"ServiceNoPerArc", SP, "1">>, <<"ServiceCapacity", SP, "50">>,
       <<"FastServiceRatio", SP, "0.5">>, <<"RevenueRange", SP, "(1,2),(3,4)">>,
       <<"ReqDemandRange", SP, "(1,10)">>, <<"Trans/HoldingCost", SP, "(2,1)">>,
       <<"Name", SP, "T1">> >>

\* A HEADER with every key SSNDInstance(...) reads.
HeaderWith(cap) ==
    [DocHeader EXCEPT ![5] = <<"ServiceCapacity", SP, cap>>] \o << <<"ServiceCost", SP, "1">> >>

FullHeader == HeaderWith("50")

ArcsLine == <<"Arcs", SP, "[(1,2),(2,3)]">>

Arc1 == "((1,0),(2,1))"
Arc2 == "((2,0),(3,1))"

\* A SERVICES row of n fields: the eight of the format, cut or extended by
\* a ninth field x.
SvcRow(arc, c, x, n) == TabJoin(Take(<<"1", arc, "1", "0", "2", "1", c, "5.0", x>>, n))
ReqRow(id, flag) == TabJoin(<<id, "1", "2", "0", "1", flag, "3.5", "10">>)
HoldRow == TabJoin(<<"((1,0),(1,1))", "2.0">>)
PsiRow == TabJoin(<<"1", "0", "0.5", "2.0">>)

\* The tables of a file, each after a gap of g blank lines.
RECURSIVE Tables(_, _)
Tables(ts, g) ==
    IF ts = <<>> THEN <<>>
    ELSE [k \in 1..g |-> <<>>] \o <<HeaderRow(Head(ts)[1])>> \o Head(ts)[2] \o Tables(Tail(ts), g)

InstanceFile(header, ts, g) == FileText(header \o <<ArcsLine>> \o Tables(ts, g))

OneSvc == << <<"SERVICES", <<SvcRow(Arc1, "2.0", "20", 8)>> >> >>
OneReq == << <<"REQS", <<ReqRow("1", "true")>> >> >>

\* The end-to-end example: the documented HEADER, one service, one request.
ExampleText == InstanceFile(DocHeader, OneSvc \o OneReq, 1)
\* The same with the ServiceCost line.
GoodText == InstanceFile(FullHeader, OneSvc \o OneReq, 1)
\* A SERVICES row of seven fields.
ShortRowText ==
    InstanceFile(FullHeader, << <<"SERVICES", <<SvcRow(Arc1, "2.0", "20", 7)>> >> >> \o OneReq, 1)

GoodScenario ==
    FileText(<< TabJoin(<<"reqs", "ws", "rnd_ws">>),
                <<"1", TAB, "10", TAB, "3", SEMI, SEMI, "5", SEMI>>,
                <<"2", TAB, "20", TAB, "1">> >>)
BadScenario == FileText(<< <<"1", TAB, "10">> >>)

InsName(n, k, f, c) == <<"ins_N", n, "_K", k, "_Freq", f, "_sCap", c, ".txt">>
WName(n, k, f, c, nu) == <<"wScenarios_N", n, "_K", k, "_Freq", f, "_sCap", c, "_nu", nu, ".txt">>
Readme == <<"readme", ".txt">>

Entry(n, d) == [name |-> n, data |-> d]

\* Entries of an archive: matching and unrelated names, in directories, with
\* a prefix or a suffix, two names of one key, texts that parse and that do not.
LoadEntries ==
    { Entry(InsName("10", "5", "2", "20"), GoodText),
      Entry(Readme, FileText(<< <<"hello">> >>)),
      Entry(<<"data", SLASH>> \o InsName("1", "1", "1", "1"), GoodText),
      Entry(InsName("1", "1", "1", "1"), ShortRowText),
      Entry(InsName("01", "1", "1", "1"), ExampleText),
      Entry(<<"old_">> \o InsName("10", "5", "2", "20"), GoodText),
      Entry(InsName("1", "1", "1", "1") \o <<SLASH>> \o Readme, GoodText),
      Entry(InsName("1", "1", "1", "1") \o <<".bak">>, GoodText),
      Entry(InsName("2", "1", "1", "1") \o <<NL>>, GoodText),
      Entry(WName("1", "1", "1", "1", "0.5"), GoodScenario),
      Entry(WName("1", "1", "1", "1", "."), GoodScenario),
      Entry(<<"w", SLASH>> \o WName("10", "5", "2", "20", "1."), BadScenario) }

Kinds == {"instances", "scenarios"}

\* Archives that take each call through every step, part of every family.
BaseArchives ==
    { << Entry(Readme, FileText(<< <<"hello">> >>)), Entry(InsName("10", "5", "2", "20"), GoodText) >>,
      << Entry(WName("1", "1", "1", "1", "0.5"), GoodScenario),
         Entry(WName("1", "1", "1", "1", "."), GoodScenario) >> }

\* One instance file, as the only entry of an archive.
Single(txt) == << Entry(InsName("10", "5", "2", "20"), txt) >>

\* Files whose SERVICES rows vary: two arcs, costs, 7, 8 or 9 fields, under
\* two capacities.
SvcArchives ==
    LET svcRows == {SvcRow(a, c, "20", n) : a \in {Arc1, Arc2}, c \in {"2.0", "3.5"}, n \in {7, 8, 9}}
    IN {Single(InstanceFile(HeaderWith(cap), << <<"SERVICES", rs>> >> \o OneReq, 1)) :
            cap \in {"50", "10"}, rs \in SeqsUpTo(svcRows, MaxRows)}

\* Files whose REQS rows vary: two ids, so that a row can repeat an id.
ReqArchives ==
    LET reqRows == {ReqRow(id, fl) : id \in {"1", "2"}, fl \in {"true", "TRUE", "false"}}
    IN {Single(InstanceFile(FullHeader, OneSvc \o << <<"REQS", rs>> >>, 1)) :
            rs \in SeqsUpTo(reqRows, MaxRows)}

\* An EIN/EOUT row: a TimeNode, a tab, and an arc list, "[]" or nothing.
ExecRows ==
    {<<tn, TAB>> \o l : tn \in {<<"(1,0)">>, <<"(2,1)">>}, l \in {<<>>, <<"[]">>, <<"[((1,0),(2,1))]">>}}

\* Files whose EIN or EOUT rows vary.
ExecArchives ==
    {Single(InstanceFile(FullHeader, OneSvc \o OneReq \o << <<sec, rs>> >>, 1)) :
        sec \in {"EIN", "EOUT"}, rs \in SeqsUpTo(ExecRows, MaxRows)}

RowArchives == SvcArchives \cup ReqArchives \cup ExecArchives \cup {Single(ExampleText)}

\* The optional tables, each with n rows, for a file that has those of S.
OptionalTables(S, n) ==
    LET row(sec) == CASE sec = "HOLDING" -> HoldRow
                      [] sec = "PSI" -> PsiRow
                      [] OTHER -> <<"(1,0)", TAB, "[((1,0),(2,1))]">>
        all == <<"HOLDING", "PSI", "EIN", "EOUT">>
        have == SelectSeq(all, LAMBDA sec : sec \in S)
    IN [k \in DOMAIN have |-> <<have[k], [j \in 1..n |-> row(have[k])]>>]

SectionArchives ==
    {Single(InstanceFile(FullHeader, OneSvc \o OneReq \o OptionalTables(S, n), g)) :
        S \in SUBSET {"HOLDING", "PSI", "EIN", "EOUT"}, n \in 0..MaxRows, g \in 1..MaxGap}

\* Files made of any lines of these kinds: header rows, a blank line, a row.
ScanLines ==
    {HeaderRow("SERVICES"), HeaderRow("REQS"), HeaderRow("HOLDING"), <<>>, <<"row", TAB, "x">>}

ScanArchives ==
    {Single(FileText(pre \o ls)) :
        pre \in {<<>>, <<ArcsLine>>, <<HeaderRow("REQS"), ArcsLine>>},
        ls \in SeqsUpTo(ScanLines, MaxScanLines)}

Init == \E a \in SeqsUpTo(LoadEntries, MaxEntries), k \in Kinds : InitCall(a, k)

InitRows == \E a \in BaseArchives \cup RowArchives, k \in Kinds : InitCall(a, k)

InitSections == \E a \in BaseArchives \cup SectionArchives \cup ScanArchives, k \in Kinds : InitCall(a, k)

Spec == Init /\ [][Next]_vars

SpecRows == InitRows /\ [][Next]_vars

SpecSections == InitSections /\ [][Next]_vars

----------------------------------------------------------------------------
(* The claims.                                                             *)

\* The part of a name after its last "/".
AfterLastSlash(name) ==
    LET sl == {i \in DOMAIN name : name[i] = SLASH}
    IN IF sl = {} THEN name
       ELSE SubSeq(name, (CHOOSE i \in sl : \A j \in sl : j <= i) + 1, Len(name))

\* Where the pattern ins_N<N>_K<K>_Freq<F>_sCap<C>.txt ends in a base name
\* that ends with it (a single line feed may follow it), 0 otherwise.
PatternEnd(b) ==
    LET e == IF b # <<>> /\ b[Len(b)] = NL THEN Len(b) - 1 ELSE Len(b)
    IN IF /\ e >= 9
          /\ SubSeq(b, e - 8, e) = InsName(b[e - 7], b[e - 5], b[e - 3], b[e - 1])
          /\ {b[e - 7], b[e - 5], b[e - 3], b[e - 1]} \subseteq IntToks
       THEN e ELSE 0

Named(name) == PatternEnd(AfterLastSlash(name)) # 0

NamedKey(name) ==
    LET b == AfterLastSlash(name)
        e == PatternEnd(b)
    IN <<IntVal(b[e - 7]), IntVal(b[e - 5]), IntVal(b[e - 3]), IntVal(b[e - 1])>>

NamedEntries == {i \in DOMAIN archive : Named(archive[i].name)}

EntryParses(i) ==
    /\ KeyExc(kind, archive[i].name) = NoExc
    /\ LET key == KeyOf(kind, archive[i].name)
       IN IF kind = "instances"
          THEN LoadInstance(_section_blocks(archive[i].data).blocks, key).exc = NoExc
          ELSE LoadScenario(archive[i].data, key).exc = NoExc

\* C2: a call returns a mapping only when every matching entry parses; a
\* call in which one fails ends in the error and returns nothing, whatever
\* was parsed before it and stored in out.
C2_FailFast ==
    /\ pc = "done" =>
          \A i \in DOMAIN archive : Match(kind, archive[i].name) # 0 => EntryParses(i)
    /\ pc \in {"raising", "raised"} =>
          /\ exc # NoExc /\ result = NoResult
          /\ ~EntryParses(idx)

\* An entry fails after another was parsed and stored.
C2_Witness ==
    /\ pc = "raised" /\ out # EmptyDict /\ Len(parsed) >= 2 /\ result = NoResult

\* C3: the archive is opened once and is closed when the call has ended,
\* by return or by exception; it is open while entries are read and parsed;
\* an entry's handle is open only while it is read, and an entry is opened
\* only after every entry opened before it has been parsed.
C3_ScopedHandle ==
    /\ zfOpens <= 1
    /\ pc \in {"done", "raised"} => zfOpens = 1 /\ ~zfOpen /\ ~fhOpen
    /\ pc \in {"loop", "read", "split", "parse", "exit", "raising"} => zfOpen /\ zfOpens = 1
    /\ fhOpen => pc = "read"
    /\ Len(opened) = Len(parsed) + (IF pc \in {"read", "split", "parse"} THEN 1 ELSE 0)
    /\ \A j \in DOMAIN parsed : parsed[j] = opened[j]
    /\ \A j \in DOMAIN opened : j > 1 => opened[j - 1] < opened[j]

\* The call ended by an exception out of its second entry.
C3_Witness ==
    /\ pc = "raised" /\ Len(opened) = 2 /\ ~zfOpen /\ zfOpens = 1

\* The ServiceCapacity of the HEADER of a text: the number after the key.
CapacityIn(txt) ==
    LET i == CHOOSE i \in DOMAIN txt : txt[i] = "ServiceCapacity" IN IntVal(txt[i + 2])

\* The entry a key of out came from (the last of that key).
SourceOf(key) ==
    LET is == {i \in Range(parsed) : KeyOf(kind, archive[i].name) = key}
    IN CHOOSE i \in is : \A j \in is : j <= i

\* C4: in every Instance in the map, us is defined on exactly the arcs of
\* services and maps each to the ServiceCapacity of the file's HEADER.
C4_UniformCapacity ==
    kind = "instances" =>
        \A key \in DOMAIN out :
            LET inst == out[key]
            IN /\ DOMAIN inst.us = Range(inst.services)
               /\ \A a \in DOMAIN inst.us :
                     inst.us[a] = PyFloat(CapacityIn(archive[SourceOf(key)].data))

\* Two services, rows of nine fields, a capacity of 10.
C4_Witness ==
    /\ kind = "instances"
    /\ \E key \in DOMAIN out :
          /\ Cardinality(DOMAIN out[key].us) = 2
          /\ out[key].ServiceCapacity = 10
          /\ \E r \in Range(blocks["SERVICES"]) : Len(Split(r, TAB)) = 9

Optional == {"HOLDING", "PSI", "EIN", "EOUT"}

\* The rows the file of OptionalTables(S, n) gives the table sec.
RowsOf(sec, n) == OptionalTables({sec}, n)[1][2]

\* C5: a file with a complete HEADER, ARCS, SERVICES and REQS and any subset
\* S of the optional tables, each of n rows, after gaps of g blank lines,
\* loads without error; the splitter records exactly the tables of the file,
\* each with its own rows; the Instance has empty collections for the tables
\* left out and the rows' entries for the others.
C5_OptionalSections ==
    (kind = "instances" /\ archive \in SectionArchives) =>
        \A S \in SUBSET Optional, n \in 0..MaxRows, g \in 1..MaxGap :
            archive = Single(InstanceFile(FullHeader, OneSvc \o OneReq \o OptionalTables(S, n), g)) =>
                /\ pc \notin {"raising", "raised"}
                /\ (Len(opened) = 1 /\ pc \notin {"read", "split"}) =>
                      /\ DOMAIN blocks = {"HEADER", "ARCS", "SERVICES", "REQS"} \cup S
                      /\ blocks["SERVICES"] = OneSvc[1][2]
                      /\ blocks["REQS"] = OneReq[1][2]
                      /\ \A sec \in S : blocks[sec] = RowsOf(sec, n)
                /\ pc = "done" =>
                      LET inst == result.map[<<10, 5, 2, 20>>]
                          some(sec) == sec \in S /\ n > 0
                      IN /\ Len(inst.services) = 1 /\ Len(inst.reqs) = 1
                         /\ Len(inst.holding_arcs) = (IF "HOLDING" \in S THEN n ELSE 0)
                         /\ DOMAIN inst.chs = (IF some("HOLDING") THEN {<<<<1, 0>>, <<1, 1>>>>} ELSE {})
                         /\ DOMAIN inst.alphaPsis = (IF some("PSI") THEN {<<1, 0>>} ELSE {})
                         /\ DOMAIN inst.betaPsis = (IF some("PSI") THEN {<<1, 0>>} ELSE {})
                         /\ DOMAIN inst.arcsEin = (IF some("EIN") THEN {<<1, 0>>} ELSE {})
                         /\ DOMAIN inst.arcsEout = (IF some("EOUT") THEN {<<1, 0>>} ELSE {})

\* HOLDING and EIN left out, PSI and EOUT present with rows: loaded.
C5_Witness ==
    /\ kind = "instances" /\ pc = "done" /\ archive \in SectionArchives
    /\ DOMAIN blocks = {"HEADER", "ARCS", "SERVICES", "REQS", "PSI", "EOUT"}
    /\ blocks["PSI"] # <<>> /\ blocks["EOUT"] # <<>>
    /\ result.map[<<10, 5, 2, 20>>].holding_arcs = <<>>
    /\ result.map[<<10, 5, 2, 20>>].arcsEin = EmptyDict
    /\ result.map[<<10, 5, 2, 20>>].arcsEout # EmptyDict

\* A SERVICES row of the file that has not eight fields.
BadCountRows ==
    IF "SERVICES" \in DOMAIN blocks
    THEN {r \in Range(blocks["SERVICES"]) : Len(Split(r, TAB)) # 8} ELSE {}

\* Whether the message msg quotes the line ln.
Quotes(msg, ln) == \E i \in 0..Len(msg) : SubSeq(msg, i + 1, i + Len(ln)) = ln

\* C6: when a SERVICES row has not eight tab-separated fields the parse
\* fails with a MalformedRowError that names SERVICES and the row, and no
\* Instance is built from the file.
C6_MalformedRowRejected ==
    (kind = "instances" /\ Len(parsed) >= 1 /\ Len(parsed) = Len(opened) /\ BadCountRows # {}) =>
        /\ pc \in {"raising", "raised"}
        /\ exc.type = "MalformedRowError"
        /\ "SERVICES" \in Range(exc.msg)
        /\ \E r \in BadCountRows : Quotes(exc.msg, r)

\* C7: the file of the documented HEADER keys, one SERVICES row and one REQS
\* row loads without error into the Instance of the example.
C7_ExampleLoads ==
    (kind = "instances" /\ archive = Single(ExampleText) /\ pc \in {"done", "raised"}) =>
        /\ pc = "done"
        /\ LET inst == result.map[<<10, 5, 2, 20>>]
               arc == <<<<1, 0>>, <<2, 1>>>>
           IN /\ inst.services = <<arc>>
              /\ inst.cs[arc] = 20 /\ inst.fs[arc] = 50
              /\ inst.us[arc] = PyFloat(50)
              /\ inst.reqs = <<1>>
              /\ inst.is_contract[1] = TRUE

Count(seq, x) == Cardinality({j \in DOMAIN seq : seq[j] = x})

\* C8: in every Instance in the map each of the seven request mappings is
\* defined on exactly the ids of reqs, and each id that is a key appears
\* exactly once in reqs.
C8_RequestIds ==
    kind = "instances" =>
        \A key \in DOMAIN out :
            LET inst == out[key]
                maps == <<inst.os, inst.ds, inst.alphas, inst.betas, inst.is_contract, inst.rhos, inst.ws>>
            IN /\ \A m \in DOMAIN maps : DOMAIN maps[m] = Range(inst.reqs)
               /\ \A k \in DOMAIN inst.os : Count(inst.reqs, k) = 1

TableOrder(sec) == CHOOSE t \in DOMAIN TableNames : TableNames[t] = sec

\* The first line after the first line that starts with "Arcs ": where the
\* tables of a file begin (past the end when there is no such line).
TableRegion(lines) ==
    LET a == {j \in DOMAIN lines : StartsWith(lines[j], ArcsPrefix)}
    IN IF a = {} THEN Len(lines) + 1 ELSE (CHOOSE j \in a : \A k \in a : j <= k) + 1

\* The lines after line h up to the next blank line or the end.
RowsAfter(lines, h) ==
    LET stop == {j \in (h + 1)..Len(lines) : lines[j] = <<>>}
        e == IF stop = {} THEN Len(lines) + 1 ELSE CHOOSE j \in stop : \A k \in stop : j <= k
    IN SubSeq(lines, h + 1, e - 1)

\* Line q is a header row that opens a block of the table part of the file.
OpensBlock(lines, q, sec) ==
    /\ q >= TableRegion(lines) /\ q <= Len(lines)
    /\ lines[q] = HeaderRow(sec)
    /\ (q = TableRegion(lines) \/ lines[q - 1] = <<>>)

C10_EmptyAdjacency ==
    (kind = "instances" /\ archive \in ExecArchives) =>
        /\ pc \notin {"raising", "raised"}
        /\ pc = "done" =>
              LET ls == SplitLines(archive[1].data)
                  inst == result.map[<<10, 5, 2, 20>>]
                  m == IF "EIN" \in DOMAIN blocks THEN inst.arcsEin ELSE inst.arcsEout
              IN \A tn \in {"(1,0)", "(2,1)"} :
                    (\E j \in DOMAIN ls :
                        /\ ls[j] = <<tn, TAB>>
                        /\ \A k \in DOMAIN ls : k > j => (ls[k] = <<>> \/ ls[k][1] # tn))
                    => m[LitVal(tn)] = <<>>

====
